---- MODULE Spec2Model ----
(***************************************************************************)
(* Model of Kust.py: the Kust protocol driver (class Kust), its transport  *)
(* (class Kust.SerialCommunication) and the polling program under          *)
(* `if __name__ == "__main__"`.                                            *)
(*                                                                         *)
(* Text is modelled as sequences of one-character strings, so that the     *)
(* regular expression of parse_response and the conversions float() and    *)
(* int() are computed character by character.                              *)
(***************************************************************************)
EXTENDS Integers, Sequences, FiniteSets, TLC

(***************************************************************************)
(* Characters and character classes of the regular expression.             *)
(***************************************************************************)
CR == "\r"
LF == "\n"

Digits == {"0", "1", "2", "3", "4", "5", "6", "7", "8", "9"}

Letters ==
  {"a", "b", "c", "d", "e", "f", "g", "h", "i", "j", "k", "l", "m",
   "n", "o", "p", "q", "r", "s", "t", "u", "v", "w", "x", "y", "z",
   "A", "B", "C", "D", "E", "F", "G", "H", "I", "J", "K", "L", "M",
   "N", "O", "P", "Q", "R", "S", "T", "U", "V", "W", "X", "Y", "Z"}

\* \w of the pattern
IsWord(c) == c \in Letters \cup Digits \cup {"_"}

\* \d of the pattern
IsDigit(c) == c \in Digits

\* \s of the pattern
IsSpace(c) == c \in {" ", "\t", "\n", "\r", "\f"}

DigitVal(c) ==
  CASE c = "0" -> 0 [] c = "1" -> 1 [] c = "2" -> 2 [] c = "3" -> 3
    [] c = "4" -> 4 [] c = "5" -> 5 [] c = "6" -> 6 [] c = "7" -> 7
    [] c = "8" -> 8 [] c = "9" -> 9

(***************************************************************************)
(* Responses.  A response is the dictionary of parse_response.             *)
(***************************************************************************)
Response(c, e, v) == [Command |-> c, ErrCode |-> e, Value |-> v]

\* {'Command':'', 'ErrCode':'', 'Value':''}
Sentinel == Response(<<>>, <<>>, <<>>)

\* pattern_inc_value is  IB(\w{2})er(\d{2})\w*\s?\+?(\d{5}|.*)  and is applied
\* with re.match: anchored at the start of the line, not at its end.  The
\* last group always matches, since .* may be empty, so the greedy first
\* attempt of \w*, \s? and \+? is the match that is returned.
\* \w* : the index after the longest run of word characters starting at p
SkipWord(l, p) ==
  CHOOSE q \in p..(Len(l) + 1) :
    /\ \A j \in p..(q - 1) : IsWord(l[j])
    /\ q = Len(l) + 1 \/ ~IsWord(l[q])

\* \s? : one whitespace character, when there is one
SkipSpace(l, p) == IF p <= Len(l) /\ IsSpace(l[p]) THEN p + 1 ELSE p

\* \+? : one plus sign, when there is one
SkipPlus(l, p) == IF p <= Len(l) /\ l[p] = "+" THEN p + 1 ELSE p

\* \d{5} at p
FiveDigits(l, p) ==
  /\ p + 4 <= Len(l)
  /\ \A k \in p..(p + 4) : IsDigit(l[k])

\* .* : the index after the longest run of characters other than newline
SkipDot(l, p) ==
  CHOOSE q \in p..(Len(l) + 1) :
    /\ \A j \in p..(q - 1) : l[j] # LF
    /\ q = Len(l) + 1 \/ l[q] = LF

\* IB(\w{2})er(\d{2}) at the start of the line
MatchHead(l) ==
  /\ Len(l) >= 8
  /\ l[1] = "I" /\ l[2] = "B"
  /\ IsWord(l[3]) /\ IsWord(l[4])
  /\ l[5] = "e" /\ l[6] = "r"
  /\ IsDigit(l[7]) /\ IsDigit(l[8])

\* group 3 of the match
MatchValue(l) ==
  LET p == SkipPlus(l, SkipSpace(l, SkipWord(l, 9)))
  IN  IF FiveDigits(l, p)
      THEN SubSeq(l, p, p + 4)
      ELSE SubSeq(l, p, SkipDot(l, p) - 1)

\* The pattern without its box prefix: any two characters are taken for IB.
parse_response_anyprefix(resp) ==
  IF /\ Len(resp) >= 8
     /\ IsWord(resp[3]) /\ IsWord(resp[4])
     /\ resp[5] = "e" /\ resp[6] = "r"
     /\ IsDigit(resp[7]) /\ IsDigit(resp[8])
  THEN Response(SubSeq(resp, 3, 4), SubSeq(resp, 7, 8), MatchValue(resp))
  ELSE Sentinel

\* SerialCommunication.parse_response
parse_response(resp) ==
  IF MatchHead(resp)
  THEN Response(SubSeq(resp, 3, 4), SubSeq(resp, 7, 8), MatchValue(resp))
  ELSE Sentinel

(***************************************************************************)
(* float() and int() of a string.  A number is the record [m, e] that      *)
(* stands for m / 10^e, with e as small as possible.  The strings of the   *)
(* model hold no exponent, "inf", "nan" or underscore forms.               *)
(***************************************************************************)
ValueError == [exc |-> "ValueError"]

\* str.strip(): float() and int() ignore leading and trailing whitespace
Strip(s) ==
  LET inked == {k \in 1..Len(s) : ~IsSpace(s[k])}
  IN  IF inked = {} THEN <<>>
      ELSE SubSeq(s, CHOOSE k \in inked : \A j \in inked : k <= j,
                     CHOOSE k \in inked : \A j \in inked : k >= j)

\* the value of a string of digits
DigitsVal(s) ==
  LET val[k \in 0..Len(s)] ==
        IF k = 0 THEN 0 ELSE 10 * val[k - 1] + DigitVal(s[k])
  IN  val[Len(s)]

AllDigits(s) == \A k \in 1..Len(s) : IsDigit(s[k])

Pow10(n) ==
  LET p[k \in 0..n] == IF k = 0 THEN 1 ELSE 10 * p[k - 1]
  IN  p[n]

\* m / 10^e with the trailing zeros of the fraction removed
Norm(x) ==
  LET z == CHOOSE k \in 0..x.e :
             /\ x.m % Pow10(k) = 0
             /\ k = x.e \/ x.m % Pow10(k + 1) # 0
  IN  [m |-> x.m \div Pow10(z), e |-> x.e - z]

\* the sign and the unsigned rest of a stripped numeric string
SignOf(s) == IF s # <<>> /\ s[1] = "-" THEN -1 ELSE 1
Unsigned(s) == IF s # <<>> /\ s[1] \in {"+", "-"} THEN Tail(s) ELSE s

\* the position of the decimal point, 0 when there is none
PointAt(s) ==
  IF \E k \in 1..Len(s) : s[k] = "."
  THEN CHOOSE k \in 1..Len(s) : s[k] = "." /\ \A j \in 1..(k - 1) : s[j] # "."
  ELSE 0

\* float(s): a number, or ValueError
float(s) ==
  LET u == Unsigned(Strip(s))
      k == PointAt(u)
      ip == IF k = 0 THEN u ELSE SubSeq(u, 1, k - 1)
      fp == IF k = 0 THEN <<>> ELSE SubSeq(u, k + 1, Len(u))
  IN  IF AllDigits(ip) /\ AllDigits(fp) /\ Len(ip) + Len(fp) > 0
      THEN Norm([m |-> SignOf(Strip(s)) * DigitsVal(ip \o fp), e |-> Len(fp)])
      ELSE ValueError

\* int(s): a number with e = 0, or ValueError
int(s) ==
  LET u == Unsigned(Strip(s))
  IN  IF AllDigits(u) /\ Len(u) > 0
      THEN [m |-> SignOf(Strip(s)) * DigitsVal(u), e |-> 0]
      ELSE ValueError

\* x / 10^k for a number x
DivPow10(x, k) == Norm([m |-> x.m, e |-> x.e + k])

(***************************************************************************)
(* The lines the device can deliver.  A line is what readline() returns:   *)
(* the characters up to and including the first newline, or fewer when the *)
(* read timed out (the empty line when nothing arrived).                   *)
(***************************************************************************)
IB == <<"I", "B">>
ER == <<"e", "r">>
CRLF == <<CR, LF>>

RF == <<"R", "F">>
RT == <<"R", "T">>
RR == <<"R", "R">>
RI == <<"R", "I">>
EI == <<"E", "I">>

\* the five mnemonics of the protocol and an echo that is none of them
Echoes == {RF, RT, RR, RI, EI, <<"X", "X">>}

ErrCodes == {<<"0", "0">>, <<"9", "9">>}

\* what follows the error code: signed 5-digit field, decimal text, nothing,
\* digits without sign or space, version text
Tails ==
  { <<"+", "0", "0", "2", "1", "5">>,
    <<" ", "2", "1", ".", "5">>,
    <<>>,
    <<"2", "1", "5">>,
    <<" ", "V", "1", ".", "2">> }

\* lines that match the response grammar: every echo and tail with error
\* code 00, every echo with the other error codes
WellFormedLines ==
  {IB \o c \o ER \o <<"0", "0">> \o tl \o CRLF : c \in Echoes, tl \in Tails}
    \cup {IB \o c \o ER \o e \o <<"+", "0", "0", "2", "1", "5">> \o CRLF :
            c \in Echoes, e \in ErrCodes}

\* lines that do not: nothing received, a bare line end, a wrong box prefix,
\* a leading blank, "Er" for "er", a one-digit error code, a blank in the
\* mnemonic, a letter in the error code
MalformedLines ==
  { <<>>,
    CRLF,
    <<"X", "B", "R", "T", "e", "r", "0", "0", "+", "0", "0", "2", "1", "5", CR, LF>>,
    <<" ", "I", "B", "R", "T", "e", "r", "0", "0", "+", "0", "0", "2", "1", "5", CR, LF>>,
    <<"I", "B", "R", "T", "E", "r", "0", "0", "+", "0", "0", "2", "1", "5", CR, LF>>,
    <<"I", "B", "R", "T", "e", "r", "0">>,
    <<"I", "B", "R", " ", "e", "r", "0", "0", "+", "0", "0", "2", "1", "5", CR, LF>>,
    <<"I", "B", "R", "T", "e", "r", "0", "x", "+", "0", "0", "2", "1", "5", CR, LF>> }

Lines == WellFormedLines \cup MalformedLines

(***************************************************************************)
(* One exchange as the serial port lets it go: opening the port, writing   *)
(* or reading raises, the bytes read do not decode, or a line is read.     *)
(***************************************************************************)
IoFailures == {"open_raises", "write_raises", "read_raises", "decode_raises"}

\* on an open port, where open_port has nothing to do
ExchangesOpen ==
  {[io |-> k, line |-> <<>>] : k \in IoFailures \ {"open_raises"}}
    \cup {[io |-> "ok", line |-> l] : l \in Lines}

\* on a port that open_port has to open first
ExchangesClosed == ExchangesOpen \cup {[io |-> "open_raises", line |-> <<>>]}

Exchanges(open) == IF open THEN ExchangesOpen ELSE ExchangesClosed

NoExchange == [io |-> "none", line |-> <<>>]

IsExc(r) == "exc" \in DOMAIN r

\* open_port without its test of isOpen
ser_open_always(open) == TRUE

\* SerialCommunication.open_port, line 159: ser.open() is called only when
\* the port is not open
ser_open(open) == ~open

\* SerialCommunication.open_port: whether the port is open afterwards
open_port(open, x) == IF ser_open(open) THEN x.io # "open_raises" ELSE open

\* the text of a request name
Chars ==
  [IBRF |-> <<"I", "B", "R", "F">>, IBRT |-> <<"I", "B", "R", "T">>,
   IBRR |-> <<"I", "B", "R", "R">>, IBRI |-> <<"I", "B", "R", "I">>,
   IBEI |-> <<"I", "B", "E", "I">>]

DigitChar(d) == CHOOSE c \in Digits : DigitVal(c) = d

\* {nbr} of the f-string: nothing for '', the decimal digits of a number
str(nbr) ==
  IF ToString(nbr) = ToString("") THEN <<>>
  ELSE IF nbr < 10 THEN <<DigitChar(nbr)>>
  ELSE <<DigitChar(nbr \div 10), DigitChar(nbr % 10)>>

\* the request with a bare newline for its end
byte_str_lf(req, nbr) == Chars[req] \o str(nbr) \o <<LF>>

\* line 175: byte_str = f'{req}{nbr}\r\n'.encode(encoding = 'UTF-8')
byte_str(req, nbr) == Chars[req] \o str(nbr) \o <<CR, LF>>

\* req_resp with "except serial.SerialException:" for the bare "except:"
req_resp_serial_only(x) ==
  IF x.io \in {"open_raises", "write_raises", "read_raises"} THEN Sentinel
  ELSE IF x.io = "decode_raises" THEN [exc |-> "UnicodeDecodeError"]
  ELSE parse_response(x.line)

\* SerialCommunication.req_resp: the response, or the sentinel when anything
\* in the try block raised
req_resp(x) ==
  IF x.io \in IoFailures THEN Sentinel ELSE parse_response(x.line)

(***************************************************************************)
(* Python values and the ways a call ends.                                 *)
(***************************************************************************)
PyBool(b) == [ty |-> "bool", v |-> b]
PyStr(s) == [ty |-> "str", v |-> s]
PyList(l) == [ty |-> "list", v |-> l]
PyFloat(x) == [ty |-> "float", v |-> x]
PyNone == [ty |-> "None", v |-> <<>>]

Return(v) == [kind |-> "return", val |-> v]
Raise(e) == [kind |-> "raise", val |-> [ty |-> "exc", v |-> e]]
Continue(l) == [kind |-> "continue", val |-> PyList(l)]

\* an exception of the exchange passes through the accessor
Propagate(r, outcome) == IF IsExc(r) THEN Raise(r.exc) ELSE outcome

(***************************************************************************)
(* class Kust                                                              *)
(***************************************************************************)
\* check_response that looks at the echo only
check_response_echo_only(resp, cmd) ==
  IF resp.Command # cmd THEN FALSE ELSE TRUE

\* Kust.check_response
check_response(resp, cmd) ==
  IF resp.Command # cmd \/ resp.ErrCode # <<"0", "0">> THEN FALSE ELSE TRUE

\* is_raedy that also wants error code 00
SerialCommunication_is_raedy_checked(r) ==
  Propagate(r, IF r.Command = RF /\ r.ErrCode = <<"0", "0">>
               THEN Return(PyBool(TRUE)) ELSE Return(PyBool(FALSE)))

\* SerialCommunication.is_raedy, given the response of its request
SerialCommunication_is_raedy(r) ==
  Propagate(r, IF r.Command = RF THEN Return(PyBool(TRUE)) ELSE Return(PyBool(FALSE)))

\* Kust.get_firmware_version, given the response of its request
get_firmware_version(r) ==
  Propagate(r, IF ~check_response(r, RF) THEN Return(PyStr(<<>>))
               ELSE Return(PyStr(r.Value)))

NbrTemperatures == 4
NbrSpeeds == 6

\* get_temperatures that hands back what it has read so far
get_temperatures_partial(tt, k, r) ==
  Propagate(r,
    IF ~check_response(r, RT) THEN Return(PyList(tt))
    ELSE IF float(r.Value) = ValueError THEN Raise("ValueError")
    ELSE IF k + 1 = NbrTemperatures
         THEN Return(PyList(Append(tt, DivPow10(float(r.Value), 1))))
         ELSE Continue(Append(tt, DivPow10(float(r.Value), 1))))

\* get_temperatures that goes on to the next channel after an invalid one
get_temperatures_skipping(tt, k, r) ==
  Propagate(r,
    IF ~check_response(r, RT)
    THEN IF k + 1 = NbrTemperatures THEN Return(PyList(<<>>)) ELSE Continue(tt)
    ELSE IF float(r.Value) = ValueError THEN Raise("ValueError")
    ELSE IF k + 1 = NbrTemperatures
         THEN Return(PyList(Append(tt, DivPow10(float(r.Value), 1))))
         ELSE Continue(Append(tt, DivPow10(float(r.Value), 1))))

\* one turn of the loop of Kust.get_temperatures: tt holds t[0..k-1], r is
\* the response for channel k+1
get_temperatures(tt, k, r) ==
  Propagate(r,
    IF ~check_response(r, RT) THEN Return(PyList(<<>>))
    ELSE IF float(r.Value) = ValueError THEN Raise("ValueError")
    ELSE IF k + 1 = NbrTemperatures
         THEN Return(PyList(Append(tt, DivPow10(float(r.Value), 1))))
         ELSE Continue(Append(tt, DivPow10(float(r.Value), 1))))

\* get_rotational_frequency that hands back what it has read so far
get_rotational_frequency_partial(ss, k, r) ==
  Propagate(r,
    IF ~check_response(r, RR) THEN Return(PyList(ss))
    ELSE IF int(r.Value) = ValueError THEN Raise("ValueError")
    ELSE IF k + 1 = NbrSpeeds
         THEN Return(PyList(Append(ss, int(r.Value))))
         ELSE Continue(Append(ss, int(r.Value))))

\* one turn of the loop of Kust.get_rotational_frequency
get_rotational_frequency(ss, k, r) ==
  Propagate(r,
    IF ~check_response(r, RR) THEN Return(PyList(<<>>))
    ELSE IF int(r.Value) = ValueError THEN Raise("ValueError")
    ELSE IF k + 1 = NbrSpeeds
         THEN Return(PyList(Append(ss, int(r.Value))))
         ELSE Continue(Append(ss, int(r.Value))))

\* get_oxigen_sensor that scales like get_temperatures
get_oxigen_sensor_tenths(r) ==
  Propagate(r,
    IF ~check_response(r, RI) THEN Return(PyList(<<>>))
    ELSE IF float(r.Value) = ValueError THEN Raise("ValueError")
    ELSE Return(PyFloat(DivPow10(float(r.Value), 1))))

\* Kust.get_oxigen_sensor, given the response of its request
get_oxigen_sensor(r) ==
  Propagate(r,
    IF ~check_response(r, RI) THEN Return(PyList(<<>>))
    ELSE IF float(r.Value) = ValueError THEN Raise("ValueError")
    ELSE Return(PyFloat(DivPow10(float(r.Value), 3))))

\* Kust.reset_errors, given the response of its request
reset_errors(r) == Propagate(r, Return(PyNone))

(***************************************************************************)
(* State.                                                                  *)
(*   comm    Kust.comm: None, or the device its transport was built for    *)
(*   isOpen  ser.isOpen() of that transport                                *)
(*   op      the accessor whose loop is running, "idle" when none is       *)
(*   i, t    the loop index and the values read so far (t or s)            *)
(*   ret     how the last call ended: its name, return or raise, value     *)
(*   reqs    the requests handed to req_resp in the current or last call   *)
(*   xin     what the serial port did in the last exchange                 *)
(*   resp    the response the last req_resp handed back                    *)
(*   firstBad  the channel of the first response of this call that has     *)
(*           another echo than asked for or another error code than 00     *)
(*   written the bytes handed to ser.write in the last exchange            *)
(*   opens   how often ser.open() has opened the port of the transport,    *)
(*           the opening by its construction included                      *)
(* and of the program under __main__:                                      *)
(*   mpc     its position ("api" when the driver is called by any caller)  *)
(*   run     the run flag                                                  *)
(*   rows    the row counter                                               *)
(*   temperatures, speeds, oxigen   the sample of the cycle                *)
(*   workbook  "none", "open" or "closed"                                  *)
(*   fault   the uncaught exception that ended the program, "" when none   *)
(* and of the serial line, seen request by request:                        *)
(*   callers the threads of control that call the driver                   *)
(*   thr     for each thread its position in get_temperatures and req_resp,*)
(*           the number of its call, its loop index, the values read so    *)
(*           far and, for each value, the request whose reply carried it   *)
(*   dq      the requests the device has received and not answered yet     *)
(*   rx      the replies in the input buffer of the port, each named by    *)
(*           the request it answers                                        *)
(*   inflight  the requests written whose readline has not ended yet       *)
(*   ncalls  the calls of get_temperatures begun so far                    *)
(***************************************************************************)
VARIABLES comm, isOpen, op, i, t, ret, reqs, xin, resp, firstBad,
          written, opens,
          mpc, run, rows, temperatures, speeds, oxigen, workbook, fault,
          callers, thr, dq, rx, inflight, ncalls

drv == <<comm, isOpen, op, i, t, ret, reqs, xin, resp, firstBad,
         written, opens>>
main == <<mpc, run, rows, temperatures, speeds, oxigen, workbook, fault>>
wire == <<callers, thr, dq, rx, inflight, ncalls>>
vars == <<comm, isOpen, op, i, t, ret, reqs, xin, resp, firstBad,
          written, opens,
          mpc, run, rows, temperatures, speeds, oxigen, workbook, fault,
          callers, thr, dq, rx, inflight, ncalls>>

None == "None"

\* the port of the program and another port
PORT == "COM1"
Devices == {PORT, "COM9"}

\* the cycles of the poll loop that are explored
MaxCycles == 2

Request(req, nbr) == [req |-> req, nbr |-> nbr]

NoRet == [op |-> "none", kind |-> "none", val |-> PyNone]
Ended(name, o) == [op |-> name, kind |-> o.kind, val |-> o.val]

InitDriver ==
  /\ comm = None
  /\ isOpen = FALSE
  /\ op = "idle"
  /\ i = 0
  /\ t = <<>>
  /\ ret = NoRet
  /\ reqs = <<>>
  /\ xin = NoExchange
  /\ resp = Sentinel
  /\ firstBad = 0
  /\ written = <<>>
  /\ opens = 0

InitMain ==
  /\ run = FALSE
  /\ rows = 0
  /\ temperatures = PyNone
  /\ speeds = PyNone
  /\ oxigen = PyNone
  /\ workbook = "none"
  /\ fault = ""

\* the driver in the hands of any caller
\* no thread is in a call and the line is quiet
Threads == {1, 2}
NoCall == [pc |-> "idle", call |-> 0, i |-> 0, t |-> <<>>, src |-> <<>>]
QuietLine ==
  /\ thr = [th \in Threads |-> NoCall]
  /\ dq = <<>> /\ rx = <<>>
  /\ inflight = 0 /\ ncalls = 0
InitWire == callers = {} /\ QuietLine

Init == InitDriver /\ InitMain /\ InitWire /\ mpc = "api"

\* the program under __main__
MainInit == InitDriver /\ InitMain /\ InitWire /\ mpc = "L206"

(***************************************************************************)
(* Kust.connect.  SerialCommunication.__init__ builds serial.Serial for    *)
(* the device, a port name: it raises SerialException when the port cannot *)
(* be opened.  serial.Serial opens a port it is given, while the docstring *)
(* of __init__ says the port is not opened: the transport starts open or   *)
(* closed.                                                                 *)
(***************************************************************************)
CtorOutcomes(device) == {"ok", "SerialException"}

\* Kust.connect(device) with construction outcome c
connect(device, c) ==
  /\ op' = "idle" /\ i' = 0 /\ t' = <<>> /\ reqs' = <<>>
  /\ xin' = NoExchange /\ resp' = resp /\ firstBad' = 0
  /\ written' = <<>>
  /\ \/ /\ c = "ok"
        /\ comm' = device
        /\ isOpen' \in BOOLEAN
        /\ opens' = IF isOpen' THEN 1 ELSE 0
        /\ ret' = Ended("connect", Return(PyBool(TRUE)))
     \/ /\ c = "SerialException"
        /\ UNCHANGED <<comm, isOpen, opens>>
        /\ ret' = Ended("connect", Return(PyBool(FALSE)))

(***************************************************************************)
(* The accessors with one request.  Each is the whole call.                *)
(***************************************************************************)
\* self.comm.req_resp on comm = None
NoTransport(name) ==
  /\ comm = None
  /\ ret' = Ended(name, Raise("AttributeError"))
  /\ op' = "idle" /\ i' = 0 /\ t' = <<>> /\ reqs' = <<>>
  /\ xin' = NoExchange /\ firstBad' = 0
  /\ written' = <<>>
  /\ UNCHANGED <<comm, isOpen, resp, opens>>

\* one call of req_resp(req, nbr) in which the port behaves as x
Exchange(x, req, nbr, before) ==
  /\ comm # None
  /\ isOpen' = open_port(isOpen, x)
  /\ xin' = x
  /\ resp' = req_resp(x)
  /\ reqs' = Append(before, Request(req, nbr))
  /\ opens' = IF ser_open(isOpen) /\ x.io # "open_raises" THEN opens + 1 ELSE opens
  /\ written' = IF x.io = "open_raises" THEN <<>> ELSE byte_str(req, nbr)
  /\ UNCHANGED comm

Invalid(r, cmd) == IsExc(r) \/ r.Command # cmd \/ r.ErrCode # <<"0", "0">>

\* an accessor with one request: name, request, expected echo, its result
Single(name, req, cmd, outcome) ==
  /\ op = "idle"
  /\ \/ NoTransport(name)
     \/ /\ \E x \in Exchanges(isOpen) : Exchange(x, req, "", <<>>)
        /\ ret' = Ended(name, outcome)
        /\ firstBad' = IF Invalid(resp', cmd) THEN 1 ELSE 0
        /\ op' = "idle" /\ i' = 0 /\ t' = <<>>

\* Kust.is_raedy
Kust_is_raedy ==
  /\ op = "idle"
  /\ IF comm = None
     THEN /\ ret' = Ended("is_raedy", Return(PyBool(FALSE)))
          /\ reqs' = <<>> /\ xin' = NoExchange /\ firstBad' = 0
          /\ i' = 0 /\ t' = <<>>
          /\ written' = <<>>
          /\ UNCHANGED <<comm, isOpen, op, resp, opens>>
     ELSE Single("is_raedy", "IBRF", RF, SerialCommunication_is_raedy(resp'))

Kust_get_firmware_version ==
  Single("get_firmware_version", "IBRF", RF, get_firmware_version(resp'))

Kust_get_oxigen_sensor ==
  Single("get_oxigen_sensor", "IBRI", RI, get_oxigen_sensor(resp'))

Kust_reset_errors ==
  Single("reset_errors", "IBEI", EI, reset_errors(resp'))

(***************************************************************************)
(* The accessors with one request per channel: the call starts the loop,   *)
(* each turn of the loop is one exchange.                                  *)
(***************************************************************************)
StartLoop(name) ==
  /\ op = "idle"
  /\ op' = name
  /\ i' = 0 /\ t' = <<>> /\ reqs' = <<>> /\ firstBad' = 0
  /\ ret' = NoRet
  /\ xin' = NoExchange
  /\ written' = <<>>
  /\ UNCHANGED <<comm, isOpen, resp, opens>>

\* the turn for channel i+1 of the loop of accessor name
Turn(name, req, cmd, outcome) ==
  /\ op = name
  /\ \/ NoTransport(name)
     \/ /\ \E x \in Exchanges(isOpen) : Exchange(x, req, i + 1, reqs)
        /\ firstBad' = IF firstBad = 0 /\ Invalid(resp', cmd) THEN i + 1 ELSE firstBad
        /\ IF outcome.kind = "continue"
           THEN /\ i' = i + 1
                /\ t' = outcome.val.v
                /\ UNCHANGED <<op, ret>>
           ELSE /\ ret' = Ended(name, outcome)
                /\ op' = "idle"
                /\ i' = 0 /\ t' = <<>>

get_temperatures_turn ==
  /\ Turn("get_temperatures", "IBRT", RT, get_temperatures(t, i, resp'))
  /\ UNCHANGED <<main, wire>>

get_rotational_frequency_turn ==
  /\ Turn("get_rotational_frequency", "IBRR", RR, get_rotational_frequency(t, i, resp'))
  /\ UNCHANGED <<main, wire>>

(***************************************************************************)
(* The driver called by any caller, one call at a time.                    *)
(***************************************************************************)
Api == mpc = "api"

ApiConnect ==
  /\ Api /\ op = "idle"
  /\ \E device \in Devices :
       \E c \in CtorOutcomes(device) : connect(device, c)
  /\ UNCHANGED <<main, wire>>

ApiIsReady == Api /\ Kust_is_raedy /\ UNCHANGED <<main, wire>>
ApiGetFirmwareVersion == Api /\ Kust_get_firmware_version /\ UNCHANGED <<main, wire>>
ApiGetOxigenSensor == Api /\ Kust_get_oxigen_sensor /\ UNCHANGED <<main, wire>>
ApiResetErrors == Api /\ Kust_reset_errors /\ UNCHANGED <<main, wire>>
ApiGetTemperatures == Api /\ StartLoop("get_temperatures") /\ UNCHANGED <<main, wire>>
ApiGetRotationalFrequency == Api /\ StartLoop("get_rotational_frequency") /\ UNCHANGED <<main, wire>>

Next ==
  \/ ApiConnect
  \/ ApiIsReady
  \/ ApiGetFirmwareVersion
  \/ ApiGetOxigenSensor
  \/ ApiResetErrors
  \/ ApiGetTemperatures
  \/ ApiGetRotationalFrequency
  \/ get_temperatures_turn
  \/ get_rotational_frequency_turn

Spec == Init /\ [][Next]_vars

(***************************************************************************)
(* The program under __main__.  Calls into xlsxwriter, matplotlib and      *)
(* numpy are taken to return; what can end the program is what Python      *)
(* itself does with the values of the driver.                              *)
(***************************************************************************)
At(p) == mpc = p /\ op = "idle"

Zero == [m |-> 0, e |-> 0]

\* lines 206-207: connect, sys.exit() when it failed
M_connect ==
  /\ At("L206")
  /\ \E c \in CtorOutcomes(PORT) : connect(PORT, c)
  /\ mpc' = IF ret'.val.v THEN "L209" ELSE "exited"
  /\ UNCHANGED <<wire, run, rows, temperatures, speeds, oxigen, workbook, fault>>

\* where the program goes after a call: on, or out with the exception
After(next) ==
  /\ mpc' = IF ret'.kind = "raise" THEN "fault" ELSE next
  /\ fault' = IF ret'.kind = "raise" THEN ret'.val.v ELSE fault

\* line 209
M_reset_errors ==
  /\ At("L209")
  /\ Kust_reset_errors
  /\ After("L210")
  /\ UNCHANGED <<wire, run, rows, temperatures, speeds, oxigen, workbook>>

\* line 210
M_get_firmware_version ==
  /\ At("L210")
  /\ Kust_get_firmware_version
  /\ After("L213")
  /\ UNCHANGED <<wire, run, rows, temperatures, speeds, oxigen, workbook>>

\* lines 213-264: the row counter, the workbook and its header, the run flag,
\* the SIGINT handler, the figure
M_setup ==
  /\ At("L213")
  /\ rows' = 1
  /\ workbook' = "open"
  /\ run' = TRUE
  /\ mpc' = "L270"
  /\ UNCHANGED <<wire, drv, temperatures, speeds, oxigen, fault>>

HandlerInstalled == mpc \in {"L270", "L272", "L273", "L274", "L276", "L303"}

\* signal_handler, lines 243-246
signal_handler ==
  /\ HandlerInstalled
  /\ run' = FALSE
  /\ UNCHANGED <<wire, drv, mpc, rows, temperatures, speeds, oxigen, workbook, fault>>

\* line 270: while run
M_while ==
  /\ At("L270")
  /\ run => rows <= MaxCycles
  /\ mpc' = IF run THEN "L272" ELSE "L355"
  /\ UNCHANGED <<wire, drv, run, rows, temperatures, speeds, oxigen, workbook, fault>>

\* line 272: the call of get_temperatures
M_get_temperatures ==
  /\ At("L272") /\ ret.op # "get_temperatures"
  /\ StartLoop("get_temperatures")
  /\ UNCHANGED <<main, wire>>

\* line 272: the assignment of its result
M_temperatures ==
  /\ At("L272") /\ ret.op = "get_temperatures"
  /\ temperatures' = IF ret.kind = "raise" THEN temperatures ELSE ret.val
  /\ mpc' = IF ret.kind = "raise" THEN "fault" ELSE "L273"
  /\ fault' = IF ret.kind = "raise" THEN ret.val.v ELSE fault
  /\ UNCHANGED <<wire, drv, run, rows, speeds, oxigen, workbook>>

\* line 273: the call of get_rotational_frequency
M_get_rotational_frequency ==
  /\ At("L273") /\ ret.op # "get_rotational_frequency"
  /\ StartLoop("get_rotational_frequency")
  /\ UNCHANGED <<main, wire>>

\* line 273: the assignment of its result
M_speeds ==
  /\ At("L273") /\ ret.op = "get_rotational_frequency"
  /\ speeds' = IF ret.kind = "raise" THEN speeds ELSE ret.val
  /\ mpc' = IF ret.kind = "raise" THEN "fault" ELSE "L274"
  /\ fault' = IF ret.kind = "raise" THEN ret.val.v ELSE fault
  /\ UNCHANGED <<wire, drv, run, rows, temperatures, oxigen, workbook>>

\* line 274
M_get_oxigen_sensor ==
  /\ At("L274")
  /\ Kust_get_oxigen_sensor
  /\ After("L276")
  /\ oxigen' = IF ret'.kind = "raise" THEN oxigen ELSE ret'.val
  /\ UNCHANGED <<wire, run, rows, temperatures, speeds, workbook>>

\* lines 276-302: print the sample, count the row, put zeros for an empty
\* temperature list, write the row; speeds[0] of an empty list raises
M_write_row ==
  /\ At("L276")
  /\ rows' = rows + 1
  /\ temperatures' = IF temperatures.v = <<>>
                     THEN PyList(<<Zero, Zero, Zero, Zero>>) ELSE temperatures
  /\ IF speeds.v = <<>>
     THEN mpc' = "fault" /\ fault' = "IndexError"
     ELSE mpc' = "L303" /\ fault' = fault
  /\ UNCHANGED <<wire, drv, run, speeds, oxigen, workbook>>

\* lines 303-352: the plots
M_plot ==
  /\ At("L303")
  /\ mpc' = "L270"
  /\ UNCHANGED <<wire, drv, run, rows, temperatures, speeds, oxigen, workbook, fault>>

\* line 355
M_close ==
  /\ At("L355")
  /\ workbook' = "closed"
  /\ mpc' = "done"
  /\ UNCHANGED <<wire, drv, run, rows, temperatures, speeds, oxigen, fault>>

MainNext ==
  \/ M_connect
  \/ M_reset_errors
  \/ M_get_firmware_version
  \/ M_setup
  \/ signal_handler
  \/ M_while
  \/ M_get_temperatures
  \/ get_temperatures_turn
  \/ M_temperatures
  \/ M_get_rotational_frequency
  \/ get_rotational_frequency_turn
  \/ M_speeds
  \/ M_get_oxigen_sensor
  \/ M_write_row
  \/ M_plot
  \/ M_close

MainSpec == MainInit /\ [][MainNext]_vars

(***************************************************************************)
(* The conversions of the three value accessors, applied to responses of   *)
(* every mnemonic and error code whose Value is a string of digits.        *)
(***************************************************************************)
MaxDigits == 5
RawDigits == {"0", "2", "5"}
DigitStrings == UNION {[1..n -> RawDigits] : n \in 1..MaxDigits}
DigitResponses ==
  {Response(c, e, v) : c \in {RT, RR, RI}, e \in ErrCodes, v \in DigitStrings}

ConvInit ==
  /\ InitMain /\ InitWire /\ mpc = "conv"
  /\ comm = None /\ isOpen = FALSE /\ opens = 0
  /\ op = "idle" /\ i = 0 /\ t = <<>> /\ ret = NoRet
  /\ reqs = <<>> /\ xin = NoExchange /\ written = <<>> /\ firstBad = 0
  /\ resp \in DigitResponses

Conv(name, outcome) ==
  /\ mpc = "conv"
  /\ ret' = Ended(name, outcome)
  /\ UNCHANGED <<comm, isOpen, op, i, t, reqs, xin, resp, firstBad, written, opens>>
  /\ UNCHANGED <<main, wire>>

\* a turn of get_temperatures for any channel, on resp
ConvTemperatures ==
  \E k \in 0..(NbrTemperatures - 1) :
    Conv("get_temperatures", get_temperatures(<<>>, k, resp))

\* a turn of get_rotational_frequency for any channel, on resp
ConvSpeeds ==
  \E k \in 0..(NbrSpeeds - 1) :
    Conv("get_rotational_frequency", get_rotational_frequency(<<>>, k, resp))

ConvOxigen == Conv("get_oxigen_sensor", get_oxigen_sensor(resp))

ConvNext ==
  \/ ConvTemperatures
  \/ ConvSpeeds
  \/ ConvOxigen

ConvSpec == ConvInit /\ [][ConvNext]_vars

(***************************************************************************)
(* The serial line under get_temperatures, one step for each call of       *)
(* ser.write and of ser.readline.  The driver is connected and its port is *)
(* open; it is called by one thread or by two.  The device answers the     *)
(* requests it has received in their order, each once, at its own pace:    *)
(* readline hands back the oldest reply in the input buffer, or the empty  *)
(* line when its timeout ends with the buffer empty.  req_resp does not    *)
(* empty the buffer before it writes (line 174 is a comment) and the       *)
(* protocol has no request numbers.                                        *)
(***************************************************************************)
MaxCalls == 2

\* the request for channel k written in the call numbered n
Tag(n, k) == [call |-> n, chan |-> k]

\* the line the device answers a temperature request with: 21.k degrees
\* on channel k
DeviceLine(tag) ==
  <<"I", "B", "R", "T", "e", "r", "0", "0", "+", "0", "0", "2", "1",
    DigitChar(tag.chan), CR, LF>>

WireInit ==
  /\ InitMain /\ mpc = "wire"
  /\ comm = PORT /\ isOpen = TRUE /\ opens = 1
  /\ op = "idle" /\ i = 0 /\ t = <<>> /\ ret = NoRet
  /\ reqs = <<>> /\ xin = NoExchange /\ written = <<>> /\ firstBad = 0
  /\ resp = Sentinel
  /\ callers \in {{1}, {1, 2}}
  /\ QuietLine

\* req_resp that returns after the write
after_write_return == "idle"

\* lines 176-177: the readline follows the write
after_write == "L177"

\* the calls looked at: MaxCalls calls one after the other of a single
\* caller, one call of each of two callers
MayCall(th) ==
  IF Cardinality(callers) = 1 THEN ncalls < MaxCalls ELSE thr[th].call = 0

\* a thread calls get_temperatures: lines 99-104 up to the first write
W_get_temperatures ==
  \E th \in callers :
    /\ mpc = "wire"
    /\ thr[th].pc = "idle"
    /\ MayCall(th)
    /\ ncalls' = ncalls + 1
    /\ thr' = [thr EXCEPT ![th] = [pc |-> "L176", call |-> ncalls + 1, i |-> 0,
                                   t |-> <<>>, src |-> <<>>]]
    /\ UNCHANGED <<callers, dq, rx, inflight>>
    /\ UNCHANGED <<drv, main>>

\* line 176: self.ser.write(byte_str) for channel i+1
W_write ==
  \E th \in callers :
    /\ mpc = "wire"
    /\ thr[th].pc = "L176"
    /\ dq' = Append(dq, Tag(thr[th].call, thr[th].i + 1))
    /\ inflight' = inflight + 1
    /\ thr' = [thr EXCEPT ![th].pc = after_write]
    /\ UNCHANGED <<callers, rx, ncalls>>
    /\ UNCHANGED <<drv, main>>

\* lines 177-178 and 105-108: readline, parse, validate, convert, and the
\* next turn of the loop or the return
W_readline ==
  \E th \in callers :
    LET me == thr[th]
        got == rx # <<>>
        line == IF got THEN DeviceLine(Head(rx)) ELSE <<>>
        r == req_resp([io |-> "ok", line |-> line])
        o == get_temperatures(me.t, me.i, r)
    IN  /\ mpc = "wire"
        /\ me.pc = "L177"
        /\ rx' = IF got THEN Tail(rx) ELSE rx
        /\ inflight' = inflight - 1
        /\ thr' = [thr EXCEPT ![th] =
             IF o.kind = "continue"
             THEN [me EXCEPT !.pc = "L176", !.i = me.i + 1, !.t = o.val.v,
                             !.src = Append(me.src, Head(rx))]
             ELSE IF o.kind = "return" /\ o.val.v # <<>>
             THEN [me EXCEPT !.pc = "idle", !.i = 0, !.t = o.val.v,
                             !.src = Append(me.src, Head(rx))]
             ELSE [me EXCEPT !.pc = "idle", !.i = 0, !.t = <<>>, !.src = <<>>]]
        /\ UNCHANGED <<callers, dq, ncalls>>
        /\ UNCHANGED <<drv, main>>

\* the device answers the oldest request it has
D_reply ==
  /\ mpc = "wire"
  /\ dq # <<>>
  /\ rx' = Append(rx, Head(dq))
  /\ dq' = Tail(dq)
  /\ UNCHANGED <<callers, thr, inflight, ncalls>>
  /\ UNCHANGED <<drv, main>>

WireNext ==
  \/ W_get_temperatures
  \/ W_write
  \/ W_readline
  \/ D_reply

WireSpec == WireInit /\ [][WireNext]_vars

(***************************************************************************)
(* Properties.                                                             *)
(***************************************************************************)
OK00 == <<"0", "0">>

\* the call of accessor name has ended / has ended by returning
Done(name) == op = "idle" /\ ret.op = name
Returned(name) == Done(name) /\ ret.kind = "return"

\* the last call made an exchange, and resp is what it got
Exchanged == xin.io # "none"

\* an accessor with one request per channel hands back all n values or none
AllOrNothing(name, n) ==
  /\ op = name => firstBad = 0 /\ Len(t) = i /\ i < n
  /\ Done(name) /\ firstBad > 0 => ret.kind = "return" /\ ret.val = PyList(<<>>)
  /\ Returned(name) =>
       /\ ret.val.ty = "list"
       /\ Len(ret.val.v) \in {0, n}
       /\ Len(ret.val.v) = 0 => firstBad > 0

\* C1: get_temperatures returns 4 values or the empty list, never a partly
\* filled one; when the response of any channel has another echo than RT or
\* another error code than 00, the call returns the empty list and the values
\* read before are dropped.
C1_TemperaturesAllOrNothing == AllOrNothing("get_temperatures", NbrTemperatures)

\* channels 1 and 2 answered well, channel 3 did not, the result is empty
C1_Witness ==
  /\ Returned("get_temperatures")
  /\ firstBad = 3
  /\ ret.val = PyList(<<>>)

\* C2: get_rotational_frequency returns 6 values or the empty list, never a
\* partly filled one; when the response of any channel has another echo than
\* RR or another error code than 00, the call returns the empty list.
C2_SpeedsAllOrNothing == AllOrNothing("get_rotational_frequency", NbrSpeeds)

\* channels 1 to 4 answered well, channel 5 did not, the result is empty
C2_Witness ==
  /\ Returned("get_rotational_frequency")
  /\ firstBad = 5
  /\ ret.val = PyList(<<>>)

\* the requests of a call are those for channels 1, 2, ... in this order,
\* each once; the call stops with the first invalid channel
InChannelOrder(name, req, n) ==
  (op = name \/ Done(name)) =>
    /\ Len(reqs) <= n
    /\ \A k \in 1..Len(reqs) : reqs[k] = Request(req, k)
    /\ op = name => Len(reqs) = i
    /\ firstBad > 0 => Done(name) /\ Len(reqs) = firstBad
    /\ Returned(name) /\ firstBad = 0 => Len(reqs) = n

\* C3: get_temperatures and get_rotational_frequency hand their requests to
\* the transport in channel order 1, 2, ..., one per channel and none twice;
\* when channel k is the first with an invalid response the call has made
\* exactly the k requests for channels 1..k, and a call that returns with all
\* responses valid has made exactly 4 (temperatures) or 6 (speeds) requests.
C3_RequestsInChannelOrder ==
  /\ InChannelOrder("get_temperatures", "IBRT", NbrTemperatures)
  /\ InChannelOrder("get_rotational_frequency", "IBRR", NbrSpeeds)

\* a call of get_rotational_frequency that stopped at channel 4
C3_Witness ==
  /\ Returned("get_rotational_frequency")
  /\ firstBad = 4
  /\ Len(reqs) = 4

Accessors ==
  {"get_firmware_version", "get_temperatures", "get_rotational_frequency",
   "get_oxigen_sensor", "reset_errors"}

\* C4: on a connected driver every accessor returns, whatever line the
\* exchange delivered, and never raises.
C4_AccessorsNeverRaise ==
  comm # None /\ op = "idle" /\ ret.op \in Accessors => ret.kind = "return"

\* a connect call whose construction of the transport failed has ended
ConnectFailed ==
  Done("connect") /\ ~(ret.kind = "return" /\ ret.val = PyBool(TRUE))

\* C5: a connect whose construction of the transport fails returns false
\* without raising, and the is_raedy that follows it returns false without
\* any exchange, whether or not an earlier connect had succeeded.
C5_FailedConnectLeavesNotReady ==
  [][ConnectFailed =>
       /\ ret.kind = "return" /\ ret.val = PyBool(FALSE)
       /\ ret'.op = "is_raedy" =>
            reqs' = <<>> /\ xin' = NoExchange /\ ret'.val = PyBool(FALSE)]_vars

\* C6: is_raedy makes exactly one RF request when there is a transport and
\* returns true exactly when the echo of the response is RF, whatever the
\* error code; it returns false with no request when there is no transport.
\* For a response with echo RF and another error code than 00,
\* get_firmware_version gives the empty string where is_raedy gives true.
C6_ReadyIgnoresErrCode ==
  /\ Done("is_raedy") =>
       /\ ret.kind = "return" /\ ret.val.ty = "bool"
       /\ comm = None => reqs = <<>> /\ ~Exchanged /\ ret.val.v = FALSE
       /\ comm # None =>
            /\ reqs = <<Request("IBRF", "")>>
            /\ ret.val.v <=> resp.Command = RF
  /\ Exchanged /\ resp.Command = RF /\ resp.ErrCode # OK00 =>
       /\ SerialCommunication_is_raedy(resp) = Return(PyBool(TRUE))
       /\ get_firmware_version(resp) = Return(PyStr(<<>>))

\* is_raedy returned true on a response with error code 99
C6_Witness ==
  /\ Returned("is_raedy")
  /\ resp.Command = RF /\ resp.ErrCode = <<"9", "9">>
  /\ ret.val = PyBool(TRUE)

\* C7: req_resp never raises; when opening, writing, reading or decoding
\* failed, or nothing arrived before the timeout, it hands back the sentinel.
C7_ExchangeNeverRaises ==
  /\ ~IsExc(resp)
  /\ ret.kind = "raise" => ret.val.v \in {"AttributeError", "ValueError"}
  /\ xin.io \in IoFailures => resp = Sentinel
  /\ xin.io = "ok" /\ xin.line = <<>> => resp = Sentinel

\* the bytes read did not decode and the accessor returned its failure value
C7_Witness ==
  /\ Returned("get_oxigen_sensor")
  /\ xin.io = "decode_raises"
  /\ resp = Sentinel
  /\ ret.val = PyList(<<>>)

\* what an accessor returns when it reports failure
FailureValue(name) ==
  CASE name = "get_firmware_version" -> PyStr(<<>>)
    [] name = "get_temperatures" -> PyList(<<>>)
    [] name = "get_rotational_frequency" -> PyList(<<>>)
    [] name = "get_oxigen_sensor" -> PyList(<<>>)
    [] name = "is_raedy" -> PyBool(FALSE)
    [] name = "reset_errors" -> PyNone

\* C8: a line that does not match the response grammar parses to the
\* sentinel, and the accessor that got the sentinel has returned its failure
\* value: the empty string, the empty list, false, or nothing for
\* reset_errors.
C8_MalformedIsFailure ==
  /\ xin.io = "ok" /\ xin.line \in MalformedLines => resp = Sentinel
  /\ Exchanged /\ resp = Sentinel =>
       /\ op = "idle"
       /\ ret.op \in Accessors \cup {"is_raedy"}
       /\ ret.kind = "return"
       /\ ret.val = FailureValue(ret.op)

\* a line with the wrong box prefix made the third temperature request fail
C8_Witness ==
  /\ Returned("get_temperatures")
  /\ xin.io = "ok" /\ xin.line \in MalformedLines /\ xin.line # <<>>
  /\ xin.line[1] = "X"
  /\ Len(reqs) = 3
  /\ ret.val = PyList(<<>>)

\* C9: get_firmware_version never raises, in no state of the driver: it
\* returns the Value of an RF response with error code 00 and the empty
\* string in every other case, also when no connect has succeeded yet.
C9_FirmwareVersionNeverRaises ==
  Done("get_firmware_version") =>
    /\ ret.kind = "return"
    /\ ret.val = IF Exchanged /\ resp.Command = RF /\ resp.ErrCode = OK00
                 THEN PyStr(resp.Value) ELSE PyStr(<<>>)

\* an accessor of this cycle handed back its empty failure value
DegradedSample ==
  \/ temperatures = PyList(<<>>)
  \/ speeds = PyList(<<>>)
  \/ oxigen = PyList(<<>>)

\* C10: a cycle whose three reads have returned, one or more of them with
\* the empty failure value, is written and plotted and the loop goes on: the
\* program does not end with an exception.
C10_DegradedCycleGoesOn ==
  [][mpc = "L276" /\ DegradedSample => mpc' # "fault"]_vars

\* the response line of the example, without and with its line end
ExampleLine == <<"I", "B", "R", "T", "e", "r", "0", "0", "+", "0", "0", "2", "1", "5">>
ExampleRead == ExampleLine \o <<CR, LF>>

\* the accessor that made the last exchange and the mnemonic it asks with
Asking == IF op = "idle" THEN ret.op ELSE op
Mnemonic ==
  [is_raedy |-> <<"R", "F">>, get_firmware_version |-> <<"R", "F">>,
   get_temperatures |-> <<"R", "T">>, get_rotational_frequency |-> <<"R", "R">>,
   get_oxigen_sensor |-> <<"R", "I">>, reset_errors |-> <<"E", "I">>]
Channel ==
  IF Asking \in {"get_temperatures", "get_rotational_frequency"}
  THEN <<(<<"1", "2", "3", "4", "5", "6">>)[Len(reqs)]>>
  ELSE <<>>

\* C11: the bytes written for a request are exactly "IB", the mnemonic, the
\* channel digit when there is a channel, carriage return and line feed
\* (IBRT2\r\n; a request without channel is IB, mnemonic, \r\n); parsing the
\* line IBRTer00+00215 gives Command RT, ErrCode 00, Value 00215, and
\* get_temperatures derives 21.5 from it.
C11_RoundTripFraming ==
  /\ parse_response(ExampleLine) = Response(<<"R", "T">>, OK00, <<"0", "0", "2", "1", "5">>)
  /\ Exchanged /\ xin.io # "open_raises" =>
       written = <<"I", "B">> \o Mnemonic[Asking] \o Channel \o <<CR, LF>>
  /\ xin.io = "ok" /\ xin.line = ExampleRead =>
       /\ resp = Response(<<"R", "T">>, OK00, <<"0", "0", "2", "1", "5">>)
       /\ op = "get_temperatures" => t[i] = [m |-> 215, e |-> 1]
       /\ Returned("get_temperatures") /\ Len(reqs) = NbrTemperatures =>
            ret.val.v[NbrTemperatures] = [m |-> 215, e |-> 1]

\* the request for channel 2 went out as IBRT2\r\n and its answer
\* IBRTer00+00215 became the second temperature, 21.5
C11_Witness ==
  /\ op = "get_temperatures" /\ i = 2
  /\ written = <<"I", "B", "R", "T", "2", CR, LF>>
  /\ xin.io = "ok" /\ xin.line = ExampleRead
  /\ t[2] = [m |-> 215, e |-> 1]

\* the number a string of digits denotes
Decimal(v) ==
  LET d[n \in 0..Len(v)] ==
        IF n = 0 THEN 0
        ELSE 10 * d[n - 1] + (CHOOSE j \in 0..9 : (<<"0", "1", "2", "3", "4", "5", "6", "7", "8", "9">>)[j + 1] = v[n])
  IN  d[Len(v)]

\* the number x is n / d
IsQuotient(x, n, d) == x.m * d = n * Pow10(x.e)

\* resp is a valid response to cmd
Valid(cmd) == resp.Command = cmd /\ resp.ErrCode = OK00

\* C12: for a valid RT response with the digits v the temperature is v / 10,
\* for a valid RR response the speed is the integer v, for a valid RI
\* response the oxygen reading is v / 1000.
C12_Conversions ==
  /\ ret.op = "get_temperatures" /\ Valid(<<"R", "T">>) =>
       /\ ret.kind \in {"return", "continue"}
       /\ Len(ret.val.v) = 1
       /\ IsQuotient(ret.val.v[1], Decimal(resp.Value), 10)
  /\ ret.op = "get_rotational_frequency" /\ Valid(<<"R", "R">>) =>
       /\ ret.kind \in {"return", "continue"}
       /\ ret.val.v = <<[m |-> Decimal(resp.Value), e |-> 0]>>
  /\ ret.op = "get_oxigen_sensor" /\ Valid(<<"R", "I">>) =>
       /\ ret.kind = "return"
       /\ ret.val.ty = "float"
       /\ IsQuotient(ret.val.v, Decimal(resp.Value), 1000)

\* 00205 read as the oxygen value 0.205
C12_Witness ==
  /\ mpc = "conv"
  /\ ret.op = "get_oxigen_sensor"
  /\ resp = Response(<<"R", "I">>, OK00, <<"0", "0", "2", "0", "5">>)
  /\ ret.val = PyFloat([m |-> 205, e |-> 3])

\* 00205 read as the temperature 20.5
C12_WitnessTemperature ==
  /\ ret.op = "get_temperatures"
  /\ resp = Response(<<"R", "T">>, OK00, <<"0", "0", "2", "0", "5">>)
  /\ ret.val = PyList(<<[m |-> 205, e |-> 1]>>)

\* 00250 read as the speed 250
C12_WitnessSpeed ==
  /\ ret.op = "get_rotational_frequency"
  /\ resp = Response(<<"R", "R">>, OK00, <<"0", "0", "2", "5", "0">>)
  /\ ret.val = PyList(<<[m |-> 250, e |-> 0]>>)

\* the mnemonics the accessors validate against
Mnemonics == {<<"R", "F">>, <<"R", "T">>, <<"R", "R">>, <<"R", "I">>, <<"E", "I">>}

\* resp with another Value
WithValue(v) == [resp EXCEPT !.Value = v]

\* C14: check_response(resp, cmd) is true exactly when the Command of resp
\* is cmd and its ErrCode is 00, whatever its Value is; the sentinel of a
\* failed exchange fails against every mnemonic; the validation has a
\* boolean result for every response req_resp can hand back (it does not
\* raise).
C14_CheckResponse ==
  \A cmd \in Mnemonics :
    /\ check_response(resp, cmd) \in BOOLEAN
    /\ check_response(resp, cmd) <=> (resp.Command = cmd /\ resp.ErrCode = OK00)
    /\ \A v \in {<<>>, <<"0", "0", "2", "1", "5">>, <<"a", "b", "c", CR>>} :
         check_response(WithValue(v), cmd) = check_response(resp, cmd)
    /\ ~check_response([Command |-> <<>>, ErrCode |-> <<>>, Value |-> <<>>], cmd)

\* a temperature response with the right echo and error code 99 was
\* rejected and ended the call with the empty list
C14_Witness ==
  /\ Returned("get_temperatures")
  /\ Exchanged
  /\ resp.Command = <<"R", "T">> /\ resp.ErrCode = <<"9", "9">>
  /\ firstBad = Len(reqs)
  /\ ret.val = PyList(<<>>)

\* C15: open_port opens the port only when it is not open, and it runs before
\* every exchange: over any sequence of exchanges on one transport the port
\* is opened at most once, an exchange that got as far as writing had the
\* port open, and calling open_port again after an exchange changes nothing.
C15_OpenPortIdempotent ==
  /\ opens <= 1
  /\ isOpen <=> opens = 1
  /\ Exchanged /\ xin.io # "open_raises" => isOpen
  /\ Exchanged => open_port(isOpen, xin) = isOpen
  /\ \A o \in BOOLEAN : \A x \in Exchanges(o) :
       open_port(open_port(o, x), x) = open_port(o, x)

\* four exchanges were made on a transport whose port was opened once
C15_Witness ==
  /\ Done("get_temperatures")
  /\ Len(reqs) = NbrTemperatures
  /\ xin.io = "ok"
  /\ isOpen /\ opens = 1

\* the program has left the poll loop for good: by the end of the loop and
\* line 355, or by an exception no one catches
LeftLoop == workbook # "none" /\ mpc \in {"done", "fault"}

\* C17: once the poll loop has started, every execution that leaves it ends
\* with the workbook closed, whatever the accessors returned in the cycles.
C17_LeavingLoopClosesWorkbook == LeftLoop => workbook = "closed"

\* the driver is called by one thread of control
SingleCaller == Cardinality(callers) = 1

\* C13 as stated: at most one exchange is in flight at any time, between
\* the write of a request and the end of the readline that belongs to it no
\* other request is written, whether the driver is called by one polling
\* loop or by two call sites.
C13_OneExchangeInFlight == inflight <= 1

\* C13, amended: when the driver is called by one thread of control, at
\* most one exchange is in flight at any time: no request is written between
\* the write of a request and the end of its readline.
C13_OneExchangeInFlightSingleCaller == SingleCaller => inflight <= 1

\* the single caller is in its second call, between the write for channel
\* 2 and the end of the readline, and this is the one exchange in flight
C13_Witness ==
  /\ callers = {1}
  /\ thr[1].pc = "L177" /\ thr[1].call = 2 /\ thr[1].i = 1
  /\ inflight = 1

\* C16: with a single caller, every value get_temperatures holds or has
\* returned for channel k was carried by the reply to the request for
\* channel k written in that same call; the reply to an earlier request is
\* never taken as the answer to a later one.
C16_ResponseCorrelation ==
  SingleCaller =>
    \A th \in callers :
      \A k \in 1..Len(thr[th].src) :
        thr[th].src[k] = [call |-> thr[th].call, chan |-> k]

====
